---- MODULE Spec2Model ----
(***************************************************************************)
(* morphius (src/src/lib.rs): a template parser (process,                  *)
(* process_with_answers) and a randomised test generator (generate).       *)
(*                                                                         *)
(* A string is a sequence of tokens.  The markers |<q> </q>| |<a> </a>|    *)
(* |<e> </e>| are one token each, a well-formed variable declaration       *)
(* |<v>name: type = [min,max]</v>| is one token, a token inside an         *)
(* expression is one character, and any other token is a run of literal    *)
(* text.  A regular expression of the source is a leftmost, non-overlapping*)
(* search over the tokens (Find, FindIter), with the laziness or greed of  *)
(* each quantifier as the pattern states it.                               *)
(***************************************************************************)
EXTENDS Integers, Sequences, FiniteSets, TLC

VARIABLES
    pc,             \* position of the caller: which call has returned
    input,          \* the template string handed to process / process_with_answers
    doc,            \* the Document
    body,           \* the question text handed to process_question
    answer_body,    \* the answer text handed to process_answer, if any
    question,       \* the Question process_question returned
    scope,          \* gen_question_text: the HashMap name -> Num
    rendered,       \* gen_question_text: the (content, answer) pair returned
    num_results,    \* generate: the number of tests asked for
    num_questions,  \* generate: Option<usize>, the questions per test
    permutations,   \* generate: the Vec<Vec<usize>> of arrangements
    orders,         \* generate: the order handed to each gen_form call so far
    tests           \* generate: the Vec<Test> collected so far

vars == <<pc, input, doc, body, answer_body, question, scope, rendered,
          num_results, num_questions, permutations, orders, tests>>

(***************************************************************************)
(* Bounds of the model.                                                    *)
(***************************************************************************)
MaxLen == 5          \* tokens of a template handed to the parsers
MaxItems == 2        \* items (text, declaration, expression) of a question body
MaxBound == 2        \* largest bound written in a generated declaration
MaxResults == 2      \* largest num_results
MaxNumQs == 4        \* largest Some(num_questions)

(***************************************************************************)
(* Program constants.                                                      *)
(***************************************************************************)
DefaultMin == 0      \* Var{.., min: "0", ..} of an undeclared variable
DefaultMax == 99     \* Var{.., max: "99"} of an undeclared variable
FracRange == 1000    \* rng.gen_range(0..1000)

(***************************************************************************)
(* Sequences and strings.                                                  *)
(***************************************************************************)
Min(S) == CHOOSE x \in S : \A y \in S : x <= y

Max(S) == CHOOSE x \in S : \A y \in S : x >= y

Range(s) == {s[i] : i \in DOMAIN s}

RECURSIVE Concat(_)
\* Itertools::join(""): the strings of a sequence, one after the other
Concat(ss) == IF ss = <<>> THEN <<>> ELSE Head(ss) \o Concat(Tail(ss))

RECURSIVE Flat(_)
\* a sequence of tokens as one TLA+ string
Flat(s) == IF s = <<>> THEN "" ELSE Head(s) \o Flat(Tail(s))

RECURSIVE InterleaveShortest(_, _)
\* what Interleave is not: itertools::interleave_shortest, which stops as soon as
\* the iterator whose turn it is has run out
InterleaveShortest(a, b) ==
    IF a = <<>> THEN <<>> ELSE <<Head(a)>> \o InterleaveShortest(b, Tail(a))

RECURSIVE Interleave(_, _)
\* itertools::interleave: alternate between the two iterators, starting with
\* the first, until BOTH have run out (an exhausted side is skipped)
Interleave(a, b) ==
    IF a = <<>> THEN b ELSE <<Head(a)>> \o Interleave(b, Tail(a))

RECURSIVE SeqsOver(_, _)
\* all sequences over S of length at most n
SeqsOver(S, n) ==
    IF n = 0 THEN {<<>>}
    ELSE LET shorter == SeqsOver(S, n - 1)
         IN  shorter \cup {Append(s, x) : s \in shorter, x \in S}

(***************************************************************************)
(* The template mini-language.                                             *)
(***************************************************************************)
Q_OPEN == "|<q>"
Q_CLOSE == "</q>|"
A_OPEN == "|<a>"
A_CLOSE == "</a>|"
E_OPEN == "|<e>"
E_CLOSE == "</e>|"
NEWLINE == "\n"

\* \s
Whitespace == {" ", NEWLINE, "\t"}

\* [[:alpha:]] and [[:word:]] over the characters an expression is written in
AlphaChars == {"a", "b", "x"}

WordChars == AlphaChars \cup {"0", "1", "2", "3", "_"}

\* the signed integers a declaration of the model may name as a bound
BoundInts == (0 - 1) .. MaxBound

\* every declaration |<v>name: type = [min,max]</v>| of the model, as the four
\* capture groups of the VAR pattern of process_question
Decls ==
    [name : {<<"a">>, <<"b">>, <<"x">>}, num_type : {"int", "real"},
     min : {ToString(n) : n \in BoundInts} \cup {ToString(DefaultMin)},
     max : {ToString(n) : n \in BoundInts} \cup {ToString(DefaultMax)}]

\* the text of a declaration
DeclToken(d) ==
    "|<v>" \o Flat(d.name) \o ": " \o d.num_type \o " = [" \o d.min \o ","
        \o d.max \o "]</v>|"

\* the declaration texts of the model, and the capture groups of each
DeclTokens == {DeclToken(d) : d \in Decls}

DeclTable == [tok \in DeclTokens |-> CHOOSE d \in Decls : DeclToken(d) = tok]

IsDecl(tok) == tok \in DeclTokens

\* the capture groups of a declaration token
DeclOf(tok) == DeclTable[tok]

(***************************************************************************)
(* Regex: a match is [start, end, caps]; start = 0 means no match.         *)
(***************************************************************************)
NoMatch == [start |-> 0, end |-> 0, caps |-> <<>>]

\* (?s)\|<q>(.*?)</q>\|  at position i
MatchQuestion(text, i) ==
    LET closes == {j \in (i + 1)..Len(text) : text[j] = Q_CLOSE}
    IN  IF text[i] # Q_OPEN \/ closes = {} THEN NoMatch
        ELSE LET j == Min(closes)
             IN  [start |-> i, end |-> j, caps |-> <<SubSeq(text, i + 1, j - 1)>>]

\* \s*\|<a>(.*?)</a>\|  right after position j: the end of the answer block and
\* its body, or end = 0
AnswerAfter(text, j) ==
    LET rest == {m \in (j + 1)..Len(text) : text[m] \notin Whitespace}
    IN  IF rest = {} THEN [end |-> 0, cap |-> <<>>]
        ELSE LET m == Min(rest)
                 closes == {c \in (m + 1)..Len(text) : text[c] = A_CLOSE}
             IN  IF text[m] # A_OPEN \/ closes = {} THEN [end |-> 0, cap |-> <<>>]
                 ELSE [end |-> Min(closes),
                       cap |-> SubSeq(text, m + 1, Min(closes) - 1)]

\* (?s)\|<q>(.*?)</q>\|\s*\|<a>(.*?)</a>\|  at position i: the lazy (.*?) of the
\* question stops at the FIRST </q>| that an answer block follows
MatchQuestionAnswer(text, i) ==
    LET answers == [j \in (i + 1)..Len(text) |-> AnswerAfter(text, j)]
        closes == {j \in (i + 1)..Len(text) :
                      text[j] = Q_CLOSE /\ answers[j].end # 0}
    IN  IF text[i] # Q_OPEN \/ closes = {} THEN NoMatch
        ELSE [start |-> i, end |-> answers[Min(closes)].end,
              caps |-> <<SubSeq(text, i + 1, Min(closes) - 1),
                         answers[Min(closes)].cap>>]

\* \|<e>(.*?)</e>\|  at position i: without (?s) the dot does not match \n
MatchExp(text, i) ==
    LET closes == {j \in (i + 1)..Len(text) : text[j] = E_CLOSE}
    IN  IF text[i] # E_OPEN \/ closes = {} THEN NoMatch
        ELSE LET j == Min(closes)
             IN  IF \E m \in (i + 1)..(j - 1) : text[m] = NEWLINE THEN NoMatch
                 ELSE [start |-> i, end |-> j,
                       caps |-> <<SubSeq(text, i + 1, j - 1)>>]

\* \|<v>([[:alpha:]][[:word:]]*):\s*([[:alpha:]]*)\s*=\s*\[(-?[0-9]+),(-?[0-9]+)\]</v>\|
MatchVarDecl(text, i) ==
    IF ~IsDecl(text[i]) THEN NoMatch
    ELSE LET d == DeclOf(text[i])
         IN  [start |-> i, end |-> i,
              caps |-> <<d.name, <<d.num_type>>, <<d.min>>, <<d.max>>>>]

\* [[:alpha:]][[:word:]]*  at position i: greedy
MatchIdent(text, i) ==
    IF text[i] \notin AlphaChars THEN NoMatch
    ELSE LET j == Max({j \in i..Len(text) :
                          \A m \in (i + 1)..j : text[m] \in WordChars})
         IN  [start |-> i, end |-> j, caps |-> <<>>]

MatchAt(re, text, i) ==
    CASE re = "QUESTION" -> MatchQuestion(text, i)
      [] re = "QUESTION_ANSWER" -> MatchQuestionAnswer(text, i)
      [] re = "EXP" -> MatchExp(text, i)
      [] re = "VAR_DECL" -> MatchVarDecl(text, i)
      [] re = "VAR" -> MatchIdent(text, i)

\* the leftmost match at or after position from
Find(re, text, from) ==
    LET at == [i \in from..Len(text) |-> MatchAt(re, text, i)]
        starts == {i \in from..Len(text) : at[i].start # 0}
    IN  IF starts = {} THEN NoMatch ELSE at[Min(starts)]

RECURSIVE FindIterFrom(_, _, _)
\* the matches from the match m on
FindIterFrom(re, text, m) ==
    IF m.start = 0 THEN <<>>
    ELSE <<m>> \o FindIterFrom(re, text, Find(re, text, m.end + 1))

\* Regex::find_iter / captures_iter: the successive non-overlapping matches
FindIter(re, text) == FindIterFrom(re, text, Find(re, text, 1))

\* a split that drops a trailing empty piece, as the split of many other
\* libraries does
SplitDropTrailingEmpty(ms, text) ==
    LET n == Len(ms)
        all == [k \in 1..(n + 1) |->
                   SubSeq(text, IF k = 1 THEN 1 ELSE ms[k - 1].end + 1,
                          IF k = n + 1 THEN Len(text) ELSE ms[k].start - 1)]
    IN  IF all[n + 1] = <<>> THEN SubSeq(all, 1, n) ELSE all

\* Regex::split over the matches ms of the pattern: the text before each match,
\* then the text after the last one
Split(ms, text) ==
    LET n == Len(ms)
    IN  [k \in 1..(n + 1) |->
            SubSeq(text, IF k = 1 THEN 1 ELSE ms[k - 1].end + 1,
                   IF k = n + 1 THEN Len(text) ELSE ms[k].start - 1)]

(***************************************************************************)
(* The parser.                                                             *)
(***************************************************************************)
NoAnswer == [some |-> FALSE, expressions |-> <<>>, layout |-> <<>>]

SomeAnswer(a) == [some |-> TRUE, expressions |-> a.expressions, layout |-> a.layout]

\* the Var an undeclared identifier is given
DefaultVar(name) ==
    [name |-> name, num_type |-> "int", min |-> ToString(DefaultMin),
     max |-> ToString(DefaultMax)]

\* process_expression over the matches ms of VAR: the Expression (the Other
\* pieces interleaved with the Var names) and the names, each of which is
\* inserted into vars with the default declaration
ExpressionOf(ms, expression) ==
    [expression |->
        Interleave([k \in 1..(Len(ms) + 1) |->
                       [kind |-> "Other", text |-> Split(ms, expression)[k]]],
                   [k \in 1..Len(ms) |->
                       [kind |-> "Var",
                        text |-> SubSeq(expression, ms[k].start, ms[k].end)]]),
     names |-> {SubSeq(expression, ms[k].start, ms[k].end) : k \in 1..Len(ms)}]

\* process_expression
process_expression(expression) == ExpressionOf(FindIter("VAR", expression), expression)

\* get_content over the expressions es of the matches ms of EXP
ContentOf(ms, es, text) ==
    [vars |-> UNION {{DefaultVar(n) : n \in es[k].names} : k \in 1..Len(ms)},
     expressions |-> [k \in 1..Len(ms) |-> [expression |-> es[k].expression]],
     layout |-> Split(ms, text)]

\* the expressions of the matches ms of EXP
ExpressionsOf(ms) == [k \in 1..Len(ms) |-> process_expression(ms[k].caps[1])]

ContentWith(ms, text) == ContentOf(ms, ExpressionsOf(ms), text)

\* get_content: the Content {vars, expressions, layout} of a body
get_content(text) == ContentWith(FindIter("EXP", text), text)

\* process_answer
process_answer(answer) ==
    LET content == get_content(answer)
    IN  [expressions |-> content.expressions, layout |-> content.layout]

RECURSIVE DeclareAll(_, _)
\* process_question, the loop over the declarations: remove the default Var of
\* the name, insert the declared one
DeclareAll(vs, caps) ==
    IF caps = <<>> THEN vs
    ELSE LET cap == Head(caps)
             declared == [name |-> cap[1], num_type |-> cap[2][1],
                          min |-> cap[3][1], max |-> cap[4][1]]
         IN  DeclareAll((vs \ {DefaultVar(cap[1])}) \cup {declared}, Tail(caps))

\* process_question over the matches ms of VAR and the Content of the text
\* without them
QuestionOf(ms, content, answer) ==
    [vars |-> DeclareAll(content.vars, [k \in 1..Len(ms) |-> ms[k].caps]),
     expressions |-> content.expressions,
     layout |-> content.layout,
     answer |-> answer]

\* VAR.split(question).join("")
WithoutDecls(ms, text) == Concat(Split(ms, text))

QuestionWith(ms, text, answer) ==
    QuestionOf(ms, get_content(WithoutDecls(ms, text)), answer)

\* process_question
process_question(text, answer) == QuestionWith(FindIter("VAR_DECL", text), text, answer)

\* what DocumentLayout is not: a trailing empty piece is dropped
DocumentLayoutDropTrailingEmpty(ms, text) == SplitDropTrailingEmpty(ms, text)

\* process, the layout: QUESTION.split(input)
DocumentLayout(ms, text) == Split(ms, text)

\* process over the matches ms of QUESTION
DocumentOf(ms, text) ==
    [questions |-> [k \in 1..Len(ms) |-> process_question(ms[k].caps[1], NoAnswer)],
     layout |-> DocumentLayout(ms, text)]

\* process
process(text) == DocumentOf(FindIter("QUESTION", text), text)

\* process_with_answers over the matches ms of QUESTION (the one with answers)
DocumentWithAnswersOf(ms, text) ==
    [questions |->
        [k \in 1..Len(ms) |->
            process_question(ms[k].caps[1], SomeAnswer(process_answer(ms[k].caps[2])))],
     layout |-> Split(ms, text)]

\* process_with_answers
process_with_answers(text) ==
    DocumentWithAnswersOf(FindIter("QUESTION_ANSWER", text), text)

(***************************************************************************)
(* Inputs of the parsers, and the state outside a run.                     *)
(***************************************************************************)
Expr(text) == <<E_OPEN>> \o text \o <<E_CLOSE>>

Decl(name, num_type, min, max) ==
    DeclToken([name |-> name, num_type |-> num_type, min |-> ToString(min),
               max |-> ToString(max)])

FORM1 == <<"Beginning", Q_OPEN, "Question 1", Q_CLOSE, "Middle", Q_OPEN,
           "Question 2", Q_CLOSE, "End">>

FORM2 == <<Q_OPEN, "1", Q_CLOSE, "Middle 1", Q_OPEN, "2", Q_CLOSE, "Middle 2",
           Q_OPEN, "3", Q_CLOSE>>

FORM3 == <<Q_OPEN, "1", Q_CLOSE, Q_OPEN, "2", Q_CLOSE, Q_OPEN, "3", Q_CLOSE>>

FORM4 == <<Q_OPEN, "1", Q_CLOSE, A_OPEN, "3", A_CLOSE>>

FORM5 == <<Q_OPEN, "1", Q_CLOSE, NEWLINE, NEWLINE, " ", " ", " ", " ", " ", " ",
           " ", " ", " ", " ", "\t", "\t", A_OPEN, "3", A_CLOSE>>

\* the template of tests::test_answer_generated_correctly
FORM_ANSWER == <<Q_OPEN>> \o Expr(<<"a">>) \o <<Q_CLOSE, A_OPEN>> \o Expr(<<"a">>)
                   \o <<A_CLOSE>>

\* the template of the example of process
FORM_PLAIN == <<"Document Contents">>

\* two questions with answers and a declared variable for each, between
\* literal text
FORM_DECLARED ==
    <<"Sum: ", Q_OPEN, Decl(<<"a">>, "int", 1, 2)>> \o Expr(<<"a", "+", "a">>)
        \o <<Q_CLOSE, NEWLINE, A_OPEN>> \o Expr(<<"a">>) \o <<A_CLOSE, " Next: ", Q_OPEN,
             Decl(<<"b">>, "int", 0, 1)>> \o Expr(<<"b">>) \o <<Q_CLOSE, A_OPEN, "none", A_CLOSE,
             " End">>

\* a question without an answer before a question with one
FORM_UNANSWERED == <<Q_OPEN, "1", Q_CLOSE, "Middle", Q_OPEN, "2", Q_CLOSE, A_OPEN, "3",
                     A_CLOSE>>

\* an answer that names a variable its question does not
FORM_UNBOUND == <<Q_OPEN, "1", Q_CLOSE, A_OPEN>> \o Expr(<<"b">>) \o <<A_CLOSE>>

\* the tokens a template of the parser specification is written in
DocAlphabet == {Q_OPEN, Q_CLOSE, A_OPEN, A_CLOSE, " ", "x"}

\* the templates handed to the parsers: every short one, and the longer ones
\* of the tests and of the documentation
Templates ==
    SeqsOver(DocAlphabet, MaxLen)
        \cup {FORM1, FORM2, FORM3, FORM4, FORM5, FORM_ANSWER, FORM_PLAIN, FORM_DECLARED,
              FORM_UNANSWERED, FORM_UNBOUND}

NoDoc == [questions |-> <<>>, layout |-> <<>>]

NoQuestion == [vars |-> {}, expressions |-> <<>>, layout |-> <<>>, answer |-> NoAnswer]

NoRendered == [content |-> <<>>, answer |-> <<>>]

NoCount == [some |-> FALSE, val |-> 0]

\* the variables a specification does not use
IdleQuestion ==
    /\ body = <<>> /\ answer_body = [some |-> FALSE, text |-> <<>>]
    /\ question = NoQuestion /\ scope = <<>> /\ rendered = NoRendered

IdleGenerate ==
    /\ num_results = 0 /\ num_questions = NoCount /\ permutations = <<>>
    /\ orders = <<>> /\ tests = <<>>

(***************************************************************************)
(* The parsers as a state machine: a caller hands a template to process or *)
(* to process_with_answers.                                                *)
(***************************************************************************)
InitParse ==
    /\ pc = "parse"
    /\ input \in Templates
    /\ doc = NoDoc
    /\ IdleQuestion
    /\ IdleGenerate

Process ==
    /\ pc = "parse"
    /\ doc' = process(input)
    /\ pc' = "processed"
    /\ UNCHANGED <<input, body, answer_body, question, scope, rendered,
                   num_results, num_questions, permutations, orders, tests>>

ProcessWithAnswers ==
    /\ pc = "parse"
    /\ doc' = process_with_answers(input)
    /\ pc' = "processed_with_answers"
    /\ UNCHANGED <<input, body, answer_body, question, scope, rendered,
                   num_results, num_questions, permutations, orders, tests>>

NextParse == Process \/ ProcessWithAnswers

SpecParse == InitParse /\ [][NextParse]_vars

(***************************************************************************)
(* Claims about the parsers, checked under SpecParse.                      *)
(***************************************************************************)
Parsed == pc \in {"processed", "processed_with_answers"}

\* the matches of the pattern the call that returned has split the input on
QuestionBlocks ==
    FindIter(IF pc = "processed" THEN "QUESTION" ELSE "QUESTION_ANSWER", input)

\* l[1] b[1] l[2] b[2] .. b[n] l[n+1], for n = Len(b)
Woven(l, b) ==
    Concat([k \in 1..(2 * Len(b) + 1) |->
               IF k % 2 = 1 THEN l[(k + 1) \div 2] ELSE b[k \div 2]])

PutBack(l, ms) ==
    Woven(l, [k \in 1..Len(ms) |-> SubSeq(input, ms[k].start, ms[k].end)])

\* C1: the Document process or process_with_answers returns has one layout
\* segment more than it has questions; segment i is the text before question
\* block i and the last one is the text after the last block, so the segments
\* and the blocks, taken in turn, give back the template.
C1_LayoutOneMoreThanQuestions ==
    Parsed =>
        /\ Len(doc.layout) = Len(doc.questions) + 1
        /\ Len(QuestionBlocks) = Len(doc.questions)
        /\ PutBack(doc.layout, QuestionBlocks) = input

C1_Witness ==
    /\ Parsed
    /\ Len(doc.questions) = 2
    /\ doc.layout[1] # <<>>
    /\ doc.layout[3] = <<>>

IsMarker(tok) == tok \in {Q_OPEN, Q_CLOSE, A_OPEN, A_CLOSE}

RECURSIVE Paired(_)
\* markers in pairs: a question block, or a question block and an answer block
Paired(ms) ==
    \/ ms = <<>>
    \/ Len(ms) >= 2 /\ ms[1] = Q_OPEN /\ ms[2] = Q_CLOSE /\ Paired(SubSeq(ms, 3, Len(ms)))
    \/ /\ Len(ms) >= 4
       /\ SubSeq(ms, 1, 4) = <<Q_OPEN, Q_CLOSE, A_OPEN, A_CLOSE>>
       /\ Paired(SubSeq(ms, 5, Len(ms)))

\* a template whose markers open and close in turn
WellFormed(text) == Paired(SelectSeq(text, IsMarker))

RECURSIVE AnsweredQuestions(_, _)
\* the Questions of the question blocks that an answer block follows, each with
\* the text between its own markers and with that answer
AnsweredQuestions(text, blocks) ==
    IF blocks = <<>> THEN <<>>
    ELSE LET a == AnswerAfter(text, Head(blocks).end)
         IN  (IF a.end = 0 THEN <<>>
              ELSE <<process_question(Head(blocks).caps[1],
                                      SomeAnswer(process_answer(a.cap)))>>)
                 \o AnsweredQuestions(text, Tail(blocks))

\* C7: under process_with_answers the questions of the Document are the
\* question blocks that an answer block follows (whitespace only in between),
\* in order, each with the text between its own markers as its body; a block
\* without an answer gives no Question and no text to another Question.
C7_UnansweredQuestionOmitted ==
    (pc = "processed_with_answers" /\ WellFormed(input)) =>
        doc.questions = AnsweredQuestions(input, FindIter("QUESTION", input))

(***************************************************************************)
(* The generator of one question: gen_question_text.                       *)
(***************************************************************************)
\* Option<i64>::None of Num.frac
NoFrac == 0 - 1

\* the integers str::parse::<i64> is modelled on
ParseInts == (0 - MaxBound - 1) .. (DefaultMax + 1)

ParseTable ==
    [s \in {ToString(n) : n \in ParseInts} |-> CHOOSE n \in ParseInts : ToString(n) = s]

Parsable(s) == s \in DOMAIN ParseTable

\* str::parse::<i64>().unwrap(): the integer whose decimal text is s
ParseI64(s) == ParseTable[s]

\* what DrawSet is not: the whole part of a real is drawn from the closed
\* interval [min, max]
DrawSetClosed(var) ==
    LET lo == ParseI64(var.min)
        hi == ParseI64(var.max)
    IN  IF var.num_type = "int"
        THEN {[whole |-> w, frac |-> NoFrac] : w \in lo..hi}
        ELSE {[whole |-> w, frac |-> f] : w \in lo..hi, f \in 0..(FracRange - 1)}

\* the Nums one Var can be bound to: gen_range(min..max+1) for an int,
\* gen_range(min..max) and gen_range(0..1000) for any other type; the empty
\* set when gen_range is handed an empty range (it panics)
DrawSet(var) ==
    LET lo == ParseI64(var.min)
        hi == ParseI64(var.max)
    IN  IF var.num_type = "int"
        THEN {[whole |-> w, frac |-> NoFrac] : w \in lo..((hi + 1) - 1)}
        ELSE {[whole |-> w, frac |-> f] : w \in lo..(hi - 1), f \in 0..(FracRange - 1)}

VarNames(q) == {v.name : v \in q.vars}

RECURSIVE ScopesOver(_, _)
\* the maps that give each name one of its draws
ScopesOver(names, draws) ==
    IF names = {} THEN {<<>>}
    ELSE LET n == CHOOSE m \in names : TRUE
         IN  {(n :> d) @@ s : d \in draws[n], s \in ScopesOver(names \ {n}, draws)}

\* the loop over question.vars panics: a bound does not parse, or a range is empty
BindPanics(q) ==
    \E v \in q.vars : ~Parsable(v.min) \/ ~Parsable(v.max) \/ DrawSet(v) = {}

\* every HashMap the loop over question.vars can leave: each Var of the HashSet
\* draws a value and inserts it under its name, in the set's iteration order,
\* so a name is left with the draw of any one of the Vars that carry it
Scopes(q) ==
    LET draws == [n \in VarNames(q) |->
                     UNION {DrawSet(v) : v \in {w \in q.vars : w.name = n}}]
    IN  ScopesOver(VarNames(q), draws)

\* a value in thousandths
Thousandths(num) ==
    IF num.frac = NoFrac THEN num.whole * FracRange ELSE num.whole * FracRange + num.frac

Digit(d) == ToString(d)

\* f64::to_string of v / 1000: the shortest decimal text
Normal(v) ==
    LET a == IF v < 0 THEN 0 - v ELSE v
        w == a \div FracRange
        f == a % FracRange
        sign == IF v < 0 THEN "-" ELSE ""
        d1 == f \div 100
        d2 == (f \div 10) % 10
        d3 == f % 10
    IN  IF f = 0 THEN sign \o ToString(w)
        ELSE sign \o ToString(w) \o "." \o Digit(d1)
                \o (IF d2 = 0 /\ d3 = 0 THEN "" ELSE Digit(d2))
                \o (IF d3 = 0 THEN "" ELSE Digit(d3))

\* format!("{:.3}", v / 1000)
Rounded(v) ==
    LET a == IF v < 0 THEN 0 - v ELSE v
        f == a % FracRange
        sign == IF v < 0 THEN "-" ELSE ""
    IN  sign \o ToString(a \div FracRange) \o "." \o Digit(f \div 100)
            \o Digit((f \div 10) % 10) \o Digit(f % 10)

\* the lexemes mexprp is handed: a variable reference is the number bound to
\* it, written out and read back; the other text is read token by token
Lexemes(expression, s) ==
    LET part(c) ==
            IF c.kind = "Var"
            THEN <<[kind |-> "num", op |-> "", v |-> Thousandths(s[c.text])]>>
            ELSE [k \in 1..Len(c.text) |-> [kind |-> "op", op |-> c.text[k], v |-> 0]]
    IN  Concat([k \in 1..Len(expression.expression) |-> part(expression.expression[k])])

RECURSIVE EvalFrom(_, _)
\* the rest of a sum: (op num)*
EvalFrom(acc, lex) ==
    IF lex = <<>> THEN [ok |-> TRUE, v |-> acc]
    ELSE IF Len(lex) < 2 \/ lex[1].kind # "op" \/ lex[1].op \notin {"+", "-"}
            \/ lex[2].kind # "num"
         THEN [ok |-> FALSE, v |-> 0]
         ELSE EvalFrom(IF lex[1].op = "+" THEN acc + lex[2].v ELSE acc - lex[2].v,
                       SubSeq(lex, 3, Len(lex)))

\* mexprp::eval::<f64> on the sums and differences of the model: Err on
\* anything that is not num (op num)*
Eval(lex) ==
    IF lex = <<>> \/ lex[1].kind # "num" THEN [ok |-> FALSE, v |-> 0]
    ELSE EvalFrom(lex[1].v, Tail(lex))

\* gen_expression_text panics: scope.get(..).unwrap() on an unbound name, or
\* eval(..).unwrap() on an Err
ExpressionPanics(expression, s) ==
    IF \E k \in 1..Len(expression.expression) :
          /\ expression.expression[k].kind = "Var"
          /\ expression.expression[k].text \notin DOMAIN s
    THEN TRUE
    ELSE ~Eval(Lexemes(expression, s)).ok

\* gen_expression_text, the text of the value: the rounded one if the normal
\* one is longer
Shorter(rounded, normal) == IF Len(normal) > Len(rounded) THEN rounded ELSE normal

FormatNumber(num) == Shorter(Rounded(num), Normal(num))

\* gen_expression_text
gen_expression_text(expression, s) == FormatNumber(Eval(Lexemes(expression, s)).v)

\* layout.iter().interleave(expressions rendered against s).join("")
RenderContent(layout, expressions, s) ==
    Concat(Interleave(layout,
                      [k \in 1..Len(expressions) |->
                          <<gen_expression_text(expressions[k], s)>>]))

\* what gen_answer_text is not: the answer is rendered against a scope of its
\* own, not the one of its question
gen_answer_text_own_scope(q, s) ==
    IF q.answer.some
    THEN RenderContent(q.answer.layout, q.answer.expressions,
                       CHOOSE t \in Scopes(q) : t # s \/ Cardinality(Scopes(q)) = 1)
    ELSE <<"No Answers Provided">>

\* gen_question_text, the answer: rendered against the scope of the question
gen_answer_text(q, s) ==
    IF q.answer.some
    THEN RenderContent(q.answer.layout, q.answer.expressions, s)
    ELSE <<"No Answers Provided">>

\* gen_question_text panics under scope s
RenderPanics(q, s) ==
    \/ \E k \in 1..Len(q.expressions) : ExpressionPanics(q.expressions[k], s)
    \/ q.answer.some
         /\ \E k \in 1..Len(q.answer.expressions) :
               ExpressionPanics(q.answer.expressions[k], s)

\* gen_question_text under scope s: the pair (content, answer)
gen_question_text(q, s) ==
    [content |-> RenderContent(q.layout, q.expressions, s),
     answer |-> gen_answer_text(q, s)]

(***************************************************************************)
(* One question as a state machine: process_question (with process_answer  *)
(* when an answer body is given), then gen_question_text.                  *)
(***************************************************************************)
\* the pieces a question body of the model is put together from
BodyItems ==
    {<<"What is ">>,
     <<Decl(<<"a">>, "int", 1, 2)>>,
     <<Decl(<<"a">>, "int", 0, 1)>>,
     <<Decl(<<"a">>, "int", DefaultMin, DefaultMax)>>,
     <<Decl(<<"b">>, "int", 1, 2)>>,
     Expr(<<"a">>),
     Expr(<<"a", "+", "a">>)}

ItemBodies == {Concat(items) : items \in SeqsOver(BodyItems, MaxItems)}

AnswerBodies ==
    {[some |-> FALSE, text |-> <<>>]}
        \cup {[some |-> TRUE, text |-> t] :
                 t \in {<<"It is ">>, Expr(<<"a">>), Expr(<<"b">>),
                        Expr(<<"a", "-", "b">>)}}

\* a declaration of x with every type and every pair of bounds, then x
BoundBodies ==
    {<<Decl(<<"x">>, t, lo, hi)>> \o Expr(<<"x">>) :
        t \in {"int", "real"}, lo \in BoundInts, hi \in BoundInts}

InitQuestion ==
    /\ pc = "question"
    /\ \/ body \in ItemBodies /\ answer_body \in AnswerBodies
       \/ /\ body \in BoundBodies
          /\ answer_body \in {[some |-> FALSE, text |-> <<>>],
                              [some |-> TRUE, text |-> Expr(<<"x">>)]}
    /\ question = NoQuestion
    /\ scope = <<>>
    /\ rendered = NoRendered
    /\ input = <<>>
    /\ doc = NoDoc
    /\ IdleGenerate

ProcessQuestion ==
    /\ pc = "question"
    /\ question' = process_question(body,
                       IF answer_body.some
                       THEN SomeAnswer(process_answer(answer_body.text))
                       ELSE NoAnswer)
    /\ pc' = "processed_question"
    /\ UNCHANGED <<input, doc, body, answer_body, scope, rendered,
                   num_results, num_questions, permutations, orders, tests>>

\* gen_question_text returns
GenQuestionText ==
    /\ pc = "processed_question"
    /\ ~BindPanics(question)
    /\ \E s \in Scopes(question) :
          /\ ~RenderPanics(question, s)
          /\ scope' = s
          /\ rendered' = gen_question_text(question, s)
    /\ pc' = "generated"
    /\ UNCHANGED <<input, doc, body, answer_body, question,
                   num_results, num_questions, permutations, orders, tests>>

\* gen_question_text panics: in the loop over the vars (no scope is left), or
\* while an expression is rendered
GenQuestionTextPanics ==
    /\ pc = "processed_question"
    /\ \/ BindPanics(question) /\ scope' = <<>>
       \/ /\ ~BindPanics(question)
          /\ \E s \in Scopes(question) : RenderPanics(question, s) /\ scope' = s
    /\ pc' = "panicked"
    /\ UNCHANGED <<input, doc, body, answer_body, question, rendered,
                   num_results, num_questions, permutations, orders, tests>>

NextQuestion == ProcessQuestion \/ GenQuestionText \/ GenQuestionTextPanics

SpecQuestion == InitQuestion /\ [][NextQuestion]_vars

(***************************************************************************)
(* Claims about one question, checked under SpecQuestion.                  *)
(***************************************************************************)
\* the declarations of the body, in order, as capture groups
Declarations == [k \in 1..Len(FindIter("VAR_DECL", body)) |->
                    FindIter("VAR_DECL", body)[k].caps]

\* the names the expressions of a sequence refer to
Referenced(expressions) ==
    UNION {{c.text : c \in {d \in Range(expressions[k].expression) : d.kind = "Var"}} :
              k \in 1..Len(expressions)}

\* the last declaration of a name
LastDeclared(name) ==
    LET ks == {k \in 1..Len(Declarations) : Declarations[k][1] = name}
        cap == Declarations[Max(ks)]
    IN  [name |-> name, num_type |-> cap[2][1], min |-> cap[3][1], max |-> cap[4][1]]

\* C8: the vars of a parsed question hold exactly one Var for each name: the
\* last declaration of a declared name, and the default int [0,99] of a name
\* that only the expressions use.
C8_OneVarPerName ==
    pc # "question" =>
        LET declared == {Declarations[k][1] : k \in 1..Len(Declarations)}
            used == Referenced(question.expressions)
        IN  question.vars =
                {LastDeclared(n) : n \in declared}
                    \cup {DefaultVar(n) : n \in used \ declared}

\* C9: every identifier of an expression of the question or of its answer is a
\* Var of the question, so each reference finds a value in the scope.
C9_EveryIdentifierRegistered ==
    pc # "question" =>
        Referenced(question.expressions) \cup Referenced(question.answer.expressions)
            \subseteq VarNames(question)

\* the value of a Num is within the bounds of a Var, the way its type draws it
WithinBounds(v, num) ==
    LET lo == ParseI64(v.min)
        hi == ParseI64(v.max)
    IN  IF v.num_type = "int"
        THEN lo <= hi /\ num.frac = NoFrac /\ lo <= num.whole /\ num.whole <= hi
        ELSE /\ lo < hi
             /\ lo <= num.whole /\ num.whole <= hi - 1
             /\ 0 <= num.frac /\ num.frac <= 999
             /\ lo * 1000 <= num.whole * 1000 + num.frac
             /\ num.whole * 1000 + num.frac < hi * 1000

\* C10: a value bound in the scope is within the bounds of a Var of its name:
\* min <= v <= max for an int, and min <= whole <= max - 1 with a fraction of
\* 0..999 thousandths, so min <= value < max, for a real.
C10_ValueWithinBounds ==
    pc \in {"generated", "panicked"} =>
        \A n \in DOMAIN scope :
            \E v \in question.vars : v.name = n /\ WithinBounds(v, scope[n])

C10_Witness ==
    /\ pc = "generated"
    /\ \E v \in question.vars :
          /\ v.num_type = "real"
          /\ ParseI64(v.min) < 0
          /\ scope[v.name] = [whole |-> ParseI64(v.max) - 1, frac |-> 999]

\* C6: the question and its answer are rendered against the one scope of the
\* call: each reference to a name, in either, is replaced by the value drawn
\* for it, and a question and an answer with the same single expression are
\* rendered alike.
C6_AnswerSharesScope ==
    pc = "generated" =>
        /\ rendered.content = RenderContent(question.layout, question.expressions, scope)
        /\ question.answer.some =>
              rendered.answer = RenderContent(question.answer.layout,
                                              question.answer.expressions, scope)
        /\ (/\ question.answer.some
            /\ Len(question.expressions) = 1
            /\ question.answer.expressions = question.expressions
            /\ question.answer.layout = question.layout)
              => rendered.content = rendered.answer

C6_Witness ==
    /\ pc = "generated"
    /\ question.answer.some
    /\ Len(question.expressions) = 1
    /\ question.answer.expressions = question.expressions
    /\ question.answer.layout = question.layout
    /\ Cardinality(Scopes(question)) > 1
    /\ rendered.content = rendered.answer
    /\ rendered.content = <<"42">>

(***************************************************************************)
(* The generator of tests: generate and gen_form.                          *)
(***************************************************************************)
RECURSIVE PermsFrom(_, _, _)
\* the arrangements of k indices of 0..n-1 that avoid `used`, in the
\* lexicographic order Itertools::permutations yields them in
PermsFrom(n, k, used) ==
    IF k = 0 THEN <<<<>>>>
    ELSE Concat([i \in 1..n |->
                    IF (i - 1) \in used THEN <<>>
                    ELSE LET sub == PermsFrom(n, k - 1, used \cup {i - 1})
                         IN  [j \in 1..Len(sub) |-> <<i - 1>> \o sub[j]]])

RECURSIVE WithRepetition(_, _)
\* what KPermutations is not: an index may repeat within an arrangement
WithRepetition(n, k) ==
    IF k = 0 THEN <<<<>>>>
    ELSE LET sub == WithRepetition(n, k - 1)
         IN  Concat([i \in 1..n |-> [j \in 1..Len(sub) |-> <<i - 1>> \o sub[j]]])

\* (0..n).permutations(k).collect()
KPermutations(n, k) == PermsFrom(n, k, {})

\* what OriginalOrder is not: the questions are walked last to first
ReverseOrder(d) == [k \in 1..Len(d.questions) |-> Len(d.questions) - k]

\* gen_form, order None: doc.questions.iter(), as indices
OriginalOrder(d) == [k \in 1..Len(d.questions) |-> k - 1]

\* what one call of gen_question_text can do: panic, or return a pair
Outcome(panic, r) ==
    IF panic THEN [panic |-> TRUE, content |-> <<>>, answer |-> <<>>]
    ELSE [panic |-> FALSE, content |-> r.content, answer |-> r.answer]

QuestionOutcomes(q) ==
    IF BindPanics(q) THEN {[panic |-> TRUE, content |-> <<>>, answer |-> <<>>]}
    ELSE {Outcome(RenderPanics(q, s),
                  IF RenderPanics(q, s) THEN NoRendered ELSE gen_question_text(q, s)) :
             s \in Scopes(q)}

RECURSIVE FormOutcomes(_, _)
\* gen_form, the loop over the order: the vectors questions and answers it can
\* build, or a panic of one of the gen_question_text calls
FormOutcomes(d, order) ==
    IF order = <<>> THEN {[panic |-> FALSE, questions |-> <<>>, answers |-> <<>>]}
    ELSE LET rest == FormOutcomes(d, Tail(order))
             first == QuestionOutcomes(d.questions[Head(order) + 1])
         IN  {IF o.panic \/ r.panic
              THEN [panic |-> TRUE, questions |-> <<>>, answers |-> <<>>]
              ELSE [panic |-> FALSE, questions |-> <<o.content>> \o r.questions,
                    answers |-> <<o.answer>> \o r.answers] :
                 o \in first, r \in rest}

\* gen_form, the Test: the layout interleaved with the questions, and with the
\* answers
MakeTest(d, o) ==
    [content |-> Concat(Interleave(d.layout, o.questions)),
     answers |-> Concat(Interleave(d.layout, o.answers))]

\* cmp::min(num_qs, tot_qs_in_doc)
NumPermutations == Min({num_questions.val, Len(doc.questions)})

\* the orders generate can hand to gen_form for the next test:
\* permutations[rng.gen_range(0..num_permutations)], or the original order
SelectableOrders ==
    IF num_questions.some
    THEN {permutations[i + 1] : i \in 0..(NumPermutations - 1)}
    ELSE {OriginalOrder(doc)}

(***************************************************************************)
(* generate as a state machine: a template is parsed by process or by      *)
(* process_with_answers, generate is called on the Document, and each step *)
(* of its map produces one Test.                                           *)
(***************************************************************************)
\* the templates generate is run on
GenForms ==
    {FORM1, FORM2, FORM3, FORM4, FORM5, FORM_PLAIN, FORM_DECLARED, FORM_UNANSWERED,
     FORM_UNBOUND}

Init ==
    /\ pc = "parse"
    /\ input \in GenForms
    /\ doc = NoDoc
    /\ IdleQuestion
    /\ IdleGenerate

\* generate is called: the arrangements are collected
Generate ==
    /\ pc \in {"processed", "processed_with_answers"}
    /\ \E n \in 0..MaxResults :
       \E nq \in {NoCount} \cup {[some |-> TRUE, val |-> k] : k \in 0..MaxNumQs} :
          /\ num_results' = n
          /\ num_questions' = nq
          /\ permutations' =
                IF nq.some
                THEN KPermutations(Len(doc.questions), Min({nq.val, Len(doc.questions)}))
                ELSE <<>>
    /\ orders' = <<>>
    /\ tests' = <<>>
    /\ pc' = "generating"
    /\ UNCHANGED <<input, doc, body, answer_body, question, scope, rendered>>

\* one step of the map: an order is picked and gen_form returns a Test
GenForm ==
    /\ pc = "generating"
    /\ Len(tests) < num_results
    /\ \E order \in SelectableOrders :
       \E o \in FormOutcomes(doc, order) :
          /\ ~o.panic
          /\ orders' = Append(orders, order)
          /\ tests' = Append(tests, MakeTest(doc, o))
    /\ UNCHANGED <<pc, input, doc, body, answer_body, question, scope, rendered,
                   num_results, num_questions, permutations>>

\* one step of the map panics: gen_range is handed the empty range 0..0, or a
\* gen_question_text call panics
GenFormPanics ==
    /\ pc = "generating"
    /\ Len(tests) < num_results
    /\ \/ SelectableOrders = {}
       \/ \E order \in SelectableOrders :
             \E o \in FormOutcomes(doc, order) : o.panic
    /\ pc' = "panicked"
    /\ UNCHANGED <<input, doc, body, answer_body, question, scope, rendered,
                   num_results, num_questions, permutations, orders, tests>>

\* the map is exhausted: generate returns the tests
Return ==
    /\ pc = "generating"
    /\ Len(tests) = num_results
    /\ pc' = "done"
    /\ UNCHANGED <<input, doc, body, answer_body, question, scope, rendered,
                   num_results, num_questions, permutations, orders, tests>>

Next == Process \/ ProcessWithAnswers \/ Generate \/ GenForm \/ GenFormPanics \/ Return

Spec == Init /\ [][Next]_vars

(***************************************************************************)
(* Claims about generate, checked under Spec.                              *)
(***************************************************************************)
Generating == pc \in {"generating", "done", "panicked"}

\* the (content, answer) pairs the questions of an order can be rendered as
Renderings(d, order) ==
    LET outcomes == [j \in 1..Len(order) |->
                        {o \in QuestionOutcomes(d.questions[order[j] + 1]) : ~o.panic}]
    IN  {rs \in [1..Len(order) -> UNION {outcomes[j] : j \in 1..Len(order)}] :
            \A j \in 1..Len(order) : rs[j] \in outcomes[j]}

Contents(rs) == [j \in 1..Len(rs) |-> rs[j].content]

Answers(rs) == [j \in 1..Len(rs) |-> rs[j].answer]

\* l[1] r[1] .. r[n] l[n+1], and then the rest of l
WovenThenRest(l, r) ==
    Woven(SubSeq(l, 1, Len(r) + 1), r) \o Concat(SubSeq(l, Len(r) + 2, Len(l)))

\* l[1] r[1] .. r[n] l[n+1], the rest of l dropped
WovenRestDropped(l, r) == Woven(SubSeq(l, 1, Len(r) + 1), r)

Arrangements(n, k) ==
    {a \in [1..k -> 0..(n - 1)] : \A i, j \in 1..k : a[i] = a[j] => i = j}

\* C3: with Some(k) and k' = min(k, total) >= 1, every arrangement of k'
\* distinct indices of the questions can be picked as the order of the next
\* test, whatever was picked for the tests before it.
C3_EveryArrangementSelectable ==
    (/\ pc = "generating"
     /\ num_questions.some
     /\ NumPermutations >= 1
     /\ Len(tests) < num_results)
        => SelectableOrders = Arrangements(Len(doc.questions), NumPermutations)

\* C4: with Some(k) and k' = min(k, total), every test renders k' questions of
\* pairwise distinct indices within the document: all of them, once each, when
\* k >= total, and not all of them when k < total.
C4_DistinctQuestionsPerTest ==
    (Generating /\ num_questions.some) =>
        /\ Len(orders) = Len(tests)
        /\ \A i \in 1..Len(orders) :
              /\ Len(orders[i]) = Min({num_questions.val, Len(doc.questions)})
              /\ \A j \in 1..Len(orders[i]) :
                    orders[i][j] \in 0..(Len(doc.questions) - 1)
              /\ \A j, k \in 1..Len(orders[i]) : orders[i][j] = orders[i][k] => j = k
              /\ num_questions.val >= Len(doc.questions) =>
                    \A q \in 0..(Len(doc.questions) - 1) :
                       Cardinality({j \in 1..Len(orders[i]) : orders[i][j] = q}) = 1
              /\ num_questions.val < Len(doc.questions) =>
                    \E q \in 0..(Len(doc.questions) - 1) : q \notin Range(orders[i])
              /\ \E rs \in Renderings(doc, orders[i]) :
                    tests[i].content = WovenThenRest(doc.layout, Contents(rs))

C4_Witness ==
    /\ pc = "done"
    /\ num_questions.some
    /\ num_questions.val >= 3
    /\ Len(doc.questions) = 3
    /\ Len(tests) = 2
    /\ orders[1] # orders[2]

\* C5 as stated: with k' < total questions picked, the rendered strings are
\* interleaved with the layout by position and the layout segments beyond
\* position k' are dropped from the content and from the answers.
C5_LayoutBeyondDropped ==
    (Generating /\ num_questions.some) =>
        \A i \in 1..Len(tests) :
            Len(orders[i]) < Len(doc.questions) =>
                \E rs \in Renderings(doc, orders[i]) :
                    /\ tests[i].content = WovenRestDropped(doc.layout, Contents(rs))
                    /\ tests[i].answers = WovenRestDropped(doc.layout, Answers(rs))

\* C5 as amended: with k' < total questions picked, the rendered strings are
\* interleaved with the layout by position, and the layout segments beyond
\* position k' follow, in order, in the content and in the answers.
C5_LayoutBeyondKept ==
    (Generating /\ num_questions.some) =>
        \A i \in 1..Len(tests) :
            Len(orders[i]) < Len(doc.questions) =>
                \E rs \in Renderings(doc, orders[i]) :
                    /\ tests[i].content = WovenThenRest(doc.layout, Contents(rs))
                    /\ tests[i].answers = WovenThenRest(doc.layout, Answers(rs))

C5_Witness ==
    /\ pc = "done"
    /\ num_questions.some
    /\ num_questions.val = 1
    /\ Len(doc.questions) = 3
    /\ Len(tests) = 1
    /\ tests[1].content = <<"1", "Middle 1", "Middle 2">>
    /\ tests[1].answers = <<"No Answers Provided", "Middle 1", "Middle 2">>

\* C11: a generate(doc, numResults, Some(k)) call never fails and returns
\* exactly numResults tests, whatever numResults, k and the document are; when
\* k = 0 or the document has no questions, each test is the layout text alone
C11_GenerateCompletes ==
    (Generating /\ num_questions.some) =>
        /\ pc # "panicked"
        /\ pc = "done" =>
              /\ Len(tests) = num_results
              /\ NumPermutations = 0 =>
                    \A i \in 1..Len(tests) :
                       /\ tests[i].content = Concat(doc.layout)
                       /\ tests[i].answers = Concat(doc.layout)

====
